---- MODULE Spec2Model ----
(***************************************************************************)
(* rps-toy: a two-player Rock-Paper-Scissors arbiter over UDP              *)
(* (src/rps-toy/src/main.rs).  One process, two loops run in sequence:     *)
(* the waiting loop that fills the two player slots, and the game loop     *)
(* that polls for moves, scores on a tick and broadcasts the state until   *)
(* the game duration has elapsed.                                          *)
(*                                                                         *)
(* Time is counted in abstract clock units.  The source's durations        *)
(* (500 us tick, 20 s game) are scaled down to TickDuration and            *)
(* TotalGameDuration; Second is the number of units in one second, used    *)
(* by Duration::as_secs.  The clock is only read from line 103 on, so it   *)
(* starts at 0 when the waiting loop is left; it advances between the      *)
(* steps of the game loop and is read once by each step.                   *)
(***************************************************************************)
EXTENDS Integers, Sequences, FiniteSets, TLC

\* ---------------------------------------------------------------- bounds
NumAddrs == 3            \* sender addresses 1..NumAddrs
MaxHello == 3            \* datagrams consumed by the waiting loop
MaxPayloadLen == 1       \* bytes in a datagram
TickDuration == 1        \* tick_duration, in clock units
TotalGameDuration == 2   \* total_game_duration, in clock units
Second == 2              \* clock units per second
MaxOvershoot == 0        \* clock units the clock may run past the end of the game

\* the source's values of the two durations
TickMicros == 500        \* tick_duration, in microseconds
GameSecs == 20           \* total_game_duration, in seconds

Addrs == 1 .. NumAddrs

\* ---------------------------------------------------------------- Option
None == <<>>
Some(x) == <<x>>

\* ---------------------------------------------------------------- Move
Rock == 0
Paper == 1
Scissors == 2
Moves == {Rock, Paper, Scissors}

\* value of a local that is not yet in scope
Unset == -1

\* from_char without the upper-case letters
from_char_lowercase_only(c) ==
    CASE c = "r" -> Some(Rock)
      [] c = "p" -> Some(Paper)
      [] c = "s" -> Some(Scissors)
      [] OTHER -> None

from_char(c) ==
    CASE c \in {"r", "R"} -> Some(Rock)
      [] c \in {"p", "P"} -> Some(Paper)
      [] c \in {"s", "S"} -> Some(Scissors)
      [] OTHER -> None

\* compare with the (Rock, Paper) pair listed in the winning arm
compare_rock_beats_paper(self, other) ==
    CASE <<self, other>> \in {<<Rock, Scissors>>, <<Scissors, Paper>>, <<Paper, Rock>>, <<Rock, Paper>>} -> 1
      [] <<self, other>> \in {<<Scissors, Rock>>, <<Paper, Scissors>>} -> -1
      [] OTHER -> 0

\* compare whose catch-all arm yields 1
compare_tie_wins(self, other) ==
    CASE <<self, other>> \in {<<Rock, Scissors>>, <<Scissors, Paper>>, <<Paper, Rock>>} -> 1
      [] <<self, other>> \in {<<Scissors, Rock>>, <<Paper, Scissors>>, <<Rock, Paper>>} -> -1
      [] OTHER -> 1

compare(self, other) ==
    CASE <<self, other>> \in {<<Rock, Scissors>>, <<Scissors, Paper>>, <<Paper, Rock>>} -> 1
      [] <<self, other>> \in {<<Scissors, Rock>>, <<Paper, Scissors>>, <<Rock, Paper>>} -> -1
      [] OTHER -> 0

fmt(m) ==
    CASE m = Rock -> "Rock"
      [] m = Paper -> "Paper"
      [] m = Scissors -> "Scissors"

\* ---------------------------------------------------------------- payloads
BadByte == "0xFF"               \* a byte that is not valid UTF-8
ReplacementChar == "U+FFFD"
Bytes == {"r", "R", "p", "P", "s", "S", " ", BadByte}
WhiteSpace == {" ", "\t", "\n", "\r"}

Payloads == UNION {[1 .. n -> Bytes] : n \in 0 .. MaxPayloadLen}

from_utf8_lossy(bytes) ==
    [i \in 1 .. Len(bytes) |-> IF bytes[i] = BadByte THEN ReplacementChar ELSE bytes[i]]

RECURSIVE trim_start(_)
trim_start(s) ==
    IF s # <<>> /\ Head(s) \in WhiteSpace THEN trim_start(Tail(s)) ELSE s

RECURSIVE trim_end(_)
trim_end(s) ==
    IF s # <<>> /\ s[Len(s)] \in WhiteSpace THEN trim_end(SubSeq(s, 1, Len(s) - 1)) ELSE s

trim(s) == trim_end(trim_start(s))

chars_next(s) == IF s = <<>> THEN None ELSE Some(Head(s))

\* msg.chars().next().and_then(Move::from_char), msg being the trimmed lossy text
parse_move(buf) ==
    LET c == chars_next(trim(from_utf8_lossy(buf))) IN
    IF c = None THEN None ELSE from_char(c[1])

\* ---------------------------------------------------------------- recv_from
NoRx == [kind |-> "None", src |-> 0, buf |-> <<>>]
RecvOk == {[kind |-> "Ok", src |-> a, buf |-> b] : a \in Addrs, b \in Payloads}
RecvWouldBlock == [kind |-> "WouldBlock", src |-> 0, buf |-> <<>>]
RecvErr == [kind |-> "Err", src |-> 0, buf |-> <<>>]
RecvResults == RecvOk \cup {RecvWouldBlock, RecvErr}

VARIABLES
    pc,             \* "waiting", "init", "guard", "recv", "tick", "done"
    player1_addr,   \* Option<SocketAddr>
    player2_addr,
    player1_move,
    player2_move,
    player1_score,
    player2_score,
    last_tick,
    start_time,
    elapsed,        \* start_time.elapsed() as read at the top of the iteration
    cmp,            \* the comparison made by the step just taken
    now,            \* the monotonic clock
    rx,             \* result of the recv_from of the current iteration
    hello,          \* source addresses of the datagrams consumed by the waiting loop, while it runs
    match_rx,       \* a datagram has been received in the game loop
    sent,           \* send_to calls made by the step just taken, in order
    ticks,          \* number of scoring ticks of the game so far
    decisive,       \* number of those ticks at which the two moves differed
    last_bcast      \* the scores carried by the last intermediate broadcast, if any

vars == <<pc, player1_addr, player2_addr, player1_move, player2_move,
          player1_score, player2_score, last_tick, start_time, elapsed, cmp,
          now, rx, hello, match_rx, sent, ticks, decisive, last_bcast>>

slots == <<player1_addr, player2_addr>>
match_state == <<player1_move, player2_move, player1_score, player2_score>>
timers == <<last_tick, start_time, elapsed, now>>

history == <<ticks, decisive, last_bcast>>

GamePcs == {"guard", "recv", "tick"}

\* ---------------------------------------------------------------- waiting loop
\* assign_slots without the comparison against Player 1's address
assign_slots_same_sender(p1, p2, src) ==
    IF p1 = None THEN <<Some(src), p2>>
    ELSE IF p2 = None THEN <<p1, Some(src)>>
    ELSE <<p1, p2>>

\* assign_slots without the is_none test on the first slot
assign_slots_overwrite(p1, p2, src) == <<Some(src), p2>>

\* lines 64-73: the two slots after a datagram from src
assign_slots(p1, p2, src) ==
    IF p1 = None THEN <<Some(src), p2>>
    ELSE IF p2 = None /\ Some(src) # p1 THEN <<p1, Some(src)>>
    ELSE <<p1, p2>>

\* both_assigned testing the first slot only
both_assigned_first_only(p1, p2) == p1 # None

\* line 76
both_assigned(p1, p2) == p1 # None /\ p2 # None

Init ==
    /\ pc = "waiting"
    /\ player1_addr = None
    /\ player2_addr = None
    /\ player1_move = Unset
    /\ player2_move = Unset
    /\ player1_score = Unset
    /\ player2_score = Unset
    /\ last_tick = Unset
    /\ start_time = Unset
    /\ elapsed = Unset
    /\ cmp = Unset
    /\ now = 0
    /\ rx = NoRx
    /\ hello = <<>>
    /\ match_rx = FALSE
    /\ sent = <<>>
    /\ ticks = 0
    /\ decisive = 0
    /\ last_bcast = None

\* one iteration of the waiting loop
WaitingLoop ==
    /\ pc = "waiting"
    /\ \E r \in RecvResults :
        /\ r.kind = "Ok" => Len(hello) < MaxHello
        /\ rx' = r
        /\ IF r.kind = "Ok"
           THEN LET s == assign_slots(player1_addr, player2_addr, r.src) IN
                /\ player1_addr' = s[1]
                /\ player2_addr' = s[2]
                /\ hello' = Append(hello, r.src)
                /\ pc' = IF both_assigned(s[1], s[2]) THEN "init" ELSE "waiting"
           ELSE UNCHANGED <<player1_addr, player2_addr, hello, pc>>
    /\ UNCHANGED <<match_state, timers, cmp, match_rx, sent, history>>

\* StartGame taking Player 2's first move from the payload of the hello datagram
StartGame_hello_move ==
    /\ pc = "init"
    /\ player1_move' = Rock
    /\ player2_move' = IF parse_move(rx.buf) # None THEN parse_move(rx.buf)[1] ELSE Rock
    /\ player1_score' = 0
    /\ player2_score' = 0
    /\ last_tick' = now
    /\ start_time' = now
    /\ now' = now
    /\ rx' = NoRx
    /\ hello' = <<>>
    /\ pc' = "guard"
    /\ UNCHANGED <<slots, elapsed, cmp, match_rx, sent, history>>

\* lines 95-107: the match state; the clock is read once per step
StartGame ==
    /\ pc = "init"
    /\ player1_move' = Rock
    /\ player2_move' = Rock
    /\ player1_score' = 0
    /\ player2_score' = 0
    /\ last_tick' = now
    /\ start_time' = now
    /\ now' = now
    /\ rx' = NoRx
    /\ hello' = <<>>
    /\ pc' = "guard"
    /\ UNCHANGED <<slots, elapsed, cmp, match_rx, sent, history>>

\* ---------------------------------------------------------------- broadcast
\* lines 206-215: the text of the message, field by field
state_msg(p1_move, p2_move, p1_score, p2_score, time_left, final_msg) ==
    [p1_move |-> fmt(p1_move), p2_move |-> fmt(p2_move),
     p1_score |-> p1_score, p2_score |-> p2_score,
     time_left |-> time_left, final_msg |-> final_msg]

\* broadcast_state giving up after a failed send to Player 1
broadcast_state_stop_on_error(p1_addr, p2_addr, p1_move, p2_move, p1_score, p2_score, time_left, final_msg, oks) ==
    LET msg == state_msg(p1_move, p2_move, p1_score, p2_score, time_left, final_msg) IN
    (IF p1_addr # None THEN <<[to |-> p1_addr[1], msg |-> msg, ok |-> oks[1]]>> ELSE <<>>)
    \o
    (IF p2_addr # None /\ oks[1] THEN <<[to |-> p2_addr[1], msg |-> msg, ok |-> oks[2]]>> ELSE <<>>)

\* lines 217-222: one send_to per known address, its result dropped;
\* oks[i] tells whether the i-th send_to succeeds
broadcast_state(p1_addr, p2_addr, p1_move, p2_move, p1_score, p2_score, time_left, final_msg, oks) ==
    LET msg == state_msg(p1_move, p2_move, p1_score, p2_score, time_left, final_msg) IN
    (IF p1_addr # None THEN <<[to |-> p1_addr[1], msg |-> msg, ok |-> oks[1]]>> ELSE <<>>)
    \o
    (IF p2_addr # None THEN <<[to |-> p2_addr[1], msg |-> msg, ok |-> oks[2]]>> ELSE <<>>)

SendOutcomes == [1 .. 2 -> BOOLEAN]

\* ---------------------------------------------------------------- game loop
\* result_msg comparing with >=
result_msg_ge(p1_score, p2_score) ==
    IF p1_score >= p2_score THEN "Player 1 wins!"
    ELSE IF p2_score >= p1_score THEN "Player 2 wins!"
    ELSE "It's a draw!"

\* lines 113-119
result_msg(p1_score, p2_score) ==
    IF p1_score > p2_score THEN "Player 1 wins!"
    ELSE IF p2_score > p1_score THEN "Player 2 wins!"
    ELSE "It's a draw!"

\* line 111
time_is_up(e) == e >= TotalGameDuration

\* CheckDuration without the break: the final state is sent and the loop goes on
CheckDuration_no_break ==
    /\ pc = "guard"
    /\ elapsed' = now - start_time
    /\ IF time_is_up(elapsed')
       THEN \E oks \in SendOutcomes :
                 sent' = broadcast_state(player1_addr, player2_addr,
                                         player1_move, player2_move,
                                         player1_score, player2_score, 0,
                                         Some(result_msg(player1_score, player2_score)),
                                         oks)
       ELSE sent' = <<>>
    /\ pc' = "recv"
    /\ cmp' = Unset
    /\ UNCHANGED <<slots, match_state, last_tick, start_time, now, rx, hello, match_rx, history>>

\* CheckDuration scoring the current moves once more for the final state
CheckDuration_final_score ==
    /\ pc = "guard"
    /\ elapsed' = now - start_time
    /\ IF time_is_up(elapsed')
       THEN /\ \E oks \in SendOutcomes :
                 LET c == compare(player1_move, player2_move)
                     s == <<player1_score + (IF c = 1 THEN 1 ELSE 0),
                            player2_score + (IF c = -1 THEN 1 ELSE 0)>> IN
                 sent' = broadcast_state(player1_addr, player2_addr,
                                         player1_move, player2_move,
                                         s[1], s[2], 0,
                                         Some(result_msg(s[1], s[2])),
                                         oks)
            /\ pc' = "done"
       ELSE /\ sent' = <<>>
            /\ pc' = "recv"
    /\ cmp' = Unset
    /\ UNCHANGED <<slots, match_state, last_tick, start_time, now, rx, hello, match_rx, history>>

\* lines 110-134: read the clock; when the time is up send the final state and leave
CheckDuration ==
    /\ pc = "guard"
    /\ elapsed' = now - start_time
    /\ IF time_is_up(elapsed')
       THEN /\ \E oks \in SendOutcomes :
                 sent' = broadcast_state(player1_addr, player2_addr,
                                         player1_move, player2_move,
                                         player1_score, player2_score, 0,
                                         Some(result_msg(player1_score, player2_score)),
                                         oks)
            /\ pc' = "done"
       ELSE /\ sent' = <<>>
            /\ pc' = "recv"
    /\ cmp' = Unset
    /\ UNCHANGED <<slots, match_state, last_tick, start_time, now, rx, hello, match_rx, history>>

\* apply_move falling back to Rock when the payload does not parse
apply_move_default_rock(p1_addr, p2_addr, p1_move, p2_move, src, buf) ==
    LET new_move == parse_move(buf) IN
    IF Some(src) = p1_addr
    THEN IF new_move # None THEN <<new_move[1], p2_move>> ELSE <<Rock, p2_move>>
    ELSE IF Some(src) = p2_addr
    THEN IF new_move # None THEN <<p1_move, new_move[1]>> ELSE <<p1_move, Rock>>
    ELSE <<p1_move, p2_move>>

\* apply_move taking every sender other than Player 1 for Player 2
apply_move_any_sender(p1_addr, p2_addr, p1_move, p2_move, src, buf) ==
    LET new_move == parse_move(buf) IN
    IF Some(src) = p1_addr
    THEN IF new_move # None THEN <<new_move[1], p2_move>> ELSE <<p1_move, p2_move>>
    ELSE IF new_move # None THEN <<p1_move, new_move[1]>> ELSE <<p1_move, p2_move>>

\* lines 142-154: the two moves after a datagram <<src, buf>>
apply_move(p1_addr, p2_addr, p1_move, p2_move, src, buf) ==
    LET new_move == parse_move(buf) IN
    IF Some(src) = p1_addr
    THEN IF new_move # None THEN <<new_move[1], p2_move>> ELSE <<p1_move, p2_move>>
    ELSE IF Some(src) = p2_addr
    THEN IF new_move # None THEN <<p1_move, new_move[1]>> ELSE <<p1_move, p2_move>>
    ELSE <<p1_move, p2_move>>

\* GameRecv leaving the game loop on a receive error other than WouldBlock
GameRecv_err_fatal ==
    /\ pc = "recv"
    /\ \E r \in RecvResults :
        /\ rx' = r
        /\ IF r.kind = "Ok"
           THEN LET m == apply_move(player1_addr, player2_addr,
                                    player1_move, player2_move, r.src, r.buf) IN
                /\ player1_move' = m[1]
                /\ player2_move' = m[2]
                /\ match_rx' = TRUE
           ELSE UNCHANGED <<player1_move, player2_move, match_rx>>
        /\ pc' = IF r.kind = "Err" THEN "done" ELSE "tick"
    /\ UNCHANGED <<slots, player1_score, player2_score, timers, cmp, hello, sent, history>>

\* GameRecv polling again after a datagram, until nothing is waiting
GameRecv_drain ==
    /\ pc = "recv"
    /\ \E r \in RecvResults :
        /\ rx' = r
        /\ IF r.kind = "Ok"
           THEN LET m == apply_move(player1_addr, player2_addr,
                                    player1_move, player2_move, r.src, r.buf) IN
                /\ player1_move' = m[1]
                /\ player2_move' = m[2]
                /\ match_rx' = TRUE
           ELSE UNCHANGED <<player1_move, player2_move, match_rx>>
        /\ pc' = IF r.kind = "Ok" THEN "recv" ELSE "tick"
    /\ UNCHANGED <<slots, player1_score, player2_score, timers, cmp, hello, sent, history>>

\* lines 137-162: one non-blocking receive
GameRecv ==
    /\ pc = "recv"
    /\ \E r \in RecvResults :
        /\ rx' = r
        /\ IF r.kind = "Ok"
           THEN LET m == apply_move(player1_addr, player2_addr,
                                    player1_move, player2_move, r.src, r.buf) IN
                /\ player1_move' = m[1]
                /\ player2_move' = m[2]
                /\ match_rx' = TRUE
           ELSE UNCHANGED <<player1_move, player2_move, match_rx>>
    /\ pc' = "tick"
    /\ UNCHANGED <<slots, player1_score, player2_score, timers, cmp, hello, sent, history>>

\* tick_due without the interval: every iteration ticks
tick_due_always(since_last) == since_last >= 0

\* line 165
tick_due(since_last) == since_last >= TickDuration

\* award with a plain else: every comparison other than 1 scores for Player 2
award_plain_else(c, p1_score, p2_score) ==
    IF c = 1 THEN <<p1_score + 1, p2_score>>
    ELSE <<p1_score, p2_score + 1>>

\* award with the two players exchanged
award_swapped(c, p1_score, p2_score) ==
    IF c = 1 THEN <<p1_score, p2_score + 1>>
    ELSE IF c = -1 THEN <<p1_score + 1, p2_score>>
    ELSE <<p1_score, p2_score>>

\* lines 168-172: the two scores after a comparison
award(c, p1_score, p2_score) ==
    IF c = 1 THEN <<p1_score + 1, p2_score>>
    ELSE IF c = -1 THEN <<p1_score, p2_score + 1>>
    ELSE <<p1_score, p2_score>>

\* time_left_secs rounding up to the next second
time_left_secs_rounded_up(e) == (TotalGameDuration - e + Second - 1) \div Second

\* line 175
time_left_secs(e) == (TotalGameDuration - e) \div Second

\* Tick appending the result line to the state it broadcasts
Tick_with_result ==
    /\ pc = "tick"
    /\ IF tick_due(now - last_tick)
       THEN /\ last_tick' = now
            /\ now' = now
            /\ cmp' = compare(player1_move, player2_move)
            /\ LET s == award(cmp', player1_score, player2_score) IN
                /\ player1_score' = s[1]
                /\ player2_score' = s[2]
            /\ \E oks \in SendOutcomes :
                 sent' = broadcast_state(player1_addr, player2_addr,
                                         player1_move, player2_move,
                                         player1_score', player2_score',
                                         time_left_secs(elapsed),
                                         Some(result_msg(player1_score', player2_score')), oks)
            /\ ticks' = ticks + 1
            /\ decisive' = IF player1_move # player2_move THEN decisive + 1 ELSE decisive
            /\ last_bcast' = Some(<<player1_score', player2_score'>>)
       ELSE /\ cmp' = Unset
            /\ sent' = <<>>
            /\ UNCHANGED <<now, last_tick, player1_score, player2_score, history>>
    /\ rx' = NoRx
    /\ pc' = "guard"
    /\ UNCHANGED <<slots, player1_move, player2_move, start_time, elapsed, hello, match_rx>>

\* lines 165-187: score and broadcast when a tick is due; ends the iteration
Tick ==
    /\ pc = "tick"
    /\ IF tick_due(now - last_tick)
       THEN /\ last_tick' = now
            /\ now' = now
            /\ cmp' = compare(player1_move, player2_move)
            /\ LET s == award(cmp', player1_score, player2_score) IN
                /\ player1_score' = s[1]
                /\ player2_score' = s[2]
            /\ \E oks \in SendOutcomes :
                 sent' = broadcast_state(player1_addr, player2_addr,
                                         player1_move, player2_move,
                                         player1_score', player2_score',
                                         time_left_secs(elapsed), None, oks)
            /\ ticks' = ticks + 1
            /\ decisive' = IF player1_move # player2_move THEN decisive + 1 ELSE decisive
            /\ last_bcast' = Some(<<player1_score', player2_score'>>)
       ELSE /\ cmp' = Unset
            /\ sent' = <<>>
            /\ UNCHANGED <<now, last_tick, player1_score, player2_score, history>>
    /\ rx' = NoRx
    /\ pc' = "guard"
    /\ UNCHANGED <<slots, player1_move, player2_move, start_time, elapsed, hello, match_rx>>

\* the clock advances while the game loop runs
ClockAdvance ==
    /\ pc \in GamePcs
    /\ now - start_time < TotalGameDuration + MaxOvershoot
    /\ now' = now + 1
    /\ UNCHANGED <<pc, slots, match_state, last_tick, start_time, elapsed, cmp,
                   rx, hello, match_rx, sent, history>>

Next ==
    \/ WaitingLoop
    \/ StartGame
    \/ CheckDuration
    \/ GameRecv
    \/ Tick
    \/ ClockAdvance

Spec == Init /\ [][Next]_vars

\* the game loop keeps iterating and the clock keeps advancing
GameLoop == CheckDuration \/ GameRecv \/ Tick

FairSpec ==
    /\ Spec
    /\ WF_vars(GameLoop)
    /\ WF_vars(ClockAdvance)

TypeOK ==
    /\ pc \in {"waiting", "init", "done"} \cup GamePcs
    /\ player1_addr \in {None} \cup {Some(a) : a \in Addrs}
    /\ player2_addr \in {None} \cup {Some(a) : a \in Addrs}
    /\ player1_move \in Moves \cup {Unset}
    /\ player2_move \in Moves \cup {Unset}
    /\ player1_score \in Nat \cup {Unset}
    /\ player2_score \in Nat \cup {Unset}
    /\ rx \in RecvResults \cup {NoRx}
    /\ match_rx \in BOOLEAN
    /\ Len(sent) <= 2
    /\ ticks \in Nat
    /\ decisive \in 0 .. ticks
    /\ Len(last_bcast) <= 1

\* ================================================================ properties
Min(S) == CHOOSE i \in S : \A j \in S : i <= j

DistinctSources(log) == {log[i] : i \in 1 .. Len(log)}

FirstSender(log) == IF log = <<>> THEN None ELSE Some(log[1])

SecondSender(log) ==
    LET later == {i \in 1 .. Len(log) : log[i] # log[1]} IN
    IF later = {} THEN None ELSE Some(log[Min(later)])

Registered(a) == Some(a) = player1_addr \/ Some(a) = player2_addr

Beats(a, b) == <<a, b>> \in {<<Rock, Scissors>>, <<Scissors, Paper>>, <<Paper, Rock>>}

MoveLetters == {"r", "R", "p", "P", "s", "S"}

\* empty, whitespace only, or first non-whitespace byte not a move letter
Unparseable(buf) ==
    LET text == {i \in 1 .. Len(buf) : buf[i] \notin {" ", "\t", "\n", "\r"}} IN
    text = {} \/ buf[Min(text)] \notin MoveLetters

\* the step is a scoring tick
TickFired == pc = "tick" /\ last_tick' # last_tick

\* C1: while the waiting loop runs and when it returns, Player 1 is the
\* source of the first datagram received and Player 2 the source of the first
\* later datagram from another source; for sources a, a, b the players are
\* (a, b); when the loop returns the two addresses are assigned and distinct.
C1_FirstTwoDistinctSenders ==
    /\ pc \in {"waiting", "init"} =>
         /\ player1_addr = FirstSender(hello)
         /\ player2_addr = SecondSender(hello)
         /\ \A a, b \in Addrs :
              (a # b /\ hello = <<a, a, b>>) =>
                  (player1_addr = Some(a) /\ player2_addr = Some(b))
    /\ pc = "init" =>
         (player1_addr # None /\ player2_addr # None /\ player1_addr # player2_addr)

\* the waiting loop returns on sources 1, 1, 2
C1_Witness ==
    /\ pc = "init" /\ hello = <<1, 1, 2>>
    /\ player1_addr = Some(1) /\ player2_addr = Some(2)

SlotsKept ==
    /\ player1_addr # None => player1_addr' = player1_addr
    /\ player2_addr # None => player2_addr' = player2_addr

\* C2: a slot that is assigned keeps its value in every later step.
C2_SlotsImmutable == [][SlotsKept]_vars

\* Player 1 assigned, the same sender and then a third address heard from,
\* a match played with datagrams received, the process ended
C2_Witness ==
    /\ pc = "done" /\ match_rx
    /\ player1_addr = Some(3) /\ player2_addr = Some(1)

\* C3: the waiting loop is left exactly when two distinct sources have been
\* received, never with fewer and in the iteration that receives the second;
\* the game loop only runs with two distinct player addresses.
C3_ReturnsOnSecondSender ==
    /\ pc = "init" => Cardinality(DistinctSources(hello)) >= 2
    /\ pc = "waiting" => Cardinality(DistinctSources(hello)) < 2
    /\ pc # "waiting" =>
         (player1_addr # None /\ player2_addr # None /\ player1_addr # player2_addr)

\* still waiting after several datagrams of one sender and a transport error
C3_Witness ==
    /\ pc = "waiting" /\ Len(hello) >= 2 /\ rx.kind = "Err"
    /\ player1_addr # None /\ player2_addr = None

\* C4: compare is antisymmetric, zero on equal moves, 1 on the cycle
\* Rock > Scissors > Paper > Rock, and always in {-1, 0, 1}; the comparison
\* made by a tick is the negation of the comparison of the swapped moves.
C4_CompareAntisymmetricCyclic ==
    /\ \A a, b \in Moves :
         /\ compare(a, b) = 0 - compare(b, a)
         /\ compare(a, a) = 0
         /\ compare(a, b) \in {-1, 0, 1}
    /\ compare(Rock, Scissors) = 1
    /\ compare(Scissors, Paper) = 1
    /\ compare(Paper, Rock) = 1
    /\ cmp # Unset =>
         /\ cmp \in {-1, 0, 1}
         /\ cmp = 0 - compare(player2_move, player1_move)
         /\ player1_move = player2_move => cmp = 0

\* a tick has compared Rock against Paper
C4_Witness == cmp = -1 /\ player1_move = Rock /\ player2_move = Paper

ScoresMonotone ==
    pc \in GamePcs =>
        /\ player1_score' >= player1_score
        /\ player2_score' >= player2_score
        /\ (player1_score' + player2_score') - (player1_score + player2_score) <= 1
        /\ (TickFired /\ player1_move = player2_move) =>
             (player1_score' = player1_score /\ player2_score' = player2_score)

\* C5: in the game loop no step lowers a score, no step raises the sum of
\* the scores by more than 1, and a tick on equal moves changes no score.
C5_TickMonotone == [][ScoresMonotone]_vars

\* a tie tick after a point has been scored
C5_Witness ==
    /\ cmp = 0 /\ sent # <<>> /\ pc = "guard"
    /\ player1_score + player2_score >= 1

WinnerAwarded ==
    TickFired =>
        /\ Beats(player1_move, player2_move) =>
             (player1_score' = player1_score + 1 /\ player2_score' = player2_score)
        /\ Beats(player2_move, player1_move) =>
             (player2_score' = player2_score + 1 /\ player1_score' = player1_score)
        /\ Len(sent') = 2
        /\ \A i \in 1 .. Len(sent') :
             /\ sent'[i].msg.p1_move = fmt(player1_move)
             /\ sent'[i].msg.p2_move = fmt(player2_move)
             /\ sent'[i].msg.p1_score = player1_score'
             /\ sent'[i].msg.p2_score = player2_score'
             /\ sent'[i].msg.final_msg = None
             /\ (player1_move = Rock /\ player2_move = Scissors) =>
                  (sent'[i].msg.p1_move = "Rock" /\ sent'[i].msg.p2_move = "Scissors")

\* C6: a tick at which Player 1's move beats Player 2's adds exactly 1 to
\* Player 1's score and leaves Player 2's (and symmetrically); the tick's
\* broadcast carries the current moves and the scores after the increment,
\* without a result.
C6_TickAwardsWinner == [][WinnerAwarded]_vars

\* the first tick after "r" from Player 1 and "s" from Player 2
C6_Witness ==
    /\ pc = "guard" /\ cmp = 1
    /\ player1_move = Rock /\ player2_move = Scissors
    /\ player1_score = 1 /\ player2_score = 0
    /\ Len(sent) = 2 /\ sent[1].msg.p2_move = "Scissors" /\ sent[1].msg.p1_score = 1

UnparseableKept ==
    /\ (pc = "recv" /\ pc' = "tick" /\ rx'.kind = "Ok" /\ Registered(rx'.src)
            /\ Unparseable(rx'.buf)) =>
         /\ player1_move' = player1_move
         /\ player2_move' = player2_move
         /\ player1_score' = player1_score
         /\ player2_score' = player2_score
    /\ (TickFired /\ rx.kind = "Ok" /\ Registered(rx.src) /\ Unparseable(rx.buf)) =>
         /\ player1_score' - player1_score =
              (IF Beats(player1_move, player2_move) THEN 1 ELSE 0)
         /\ player2_score' - player2_score =
              (IF Beats(player2_move, player1_move) THEN 1 ELSE 0)
         /\ \A i \in 1 .. Len(sent') :
              /\ sent'[i].msg.p1_move = fmt(player1_move)
              /\ sent'[i].msg.p2_move = fmt(player2_move)

\* C7: in the match a datagram from a registered player whose payload is
\* empty, whitespace only or starts (after whitespace) with a byte that is
\* no move letter changes no move and no score, and the tick of that
\* iteration scores and broadcasts the moves stored before it.
C7_UnparseableKeepsMove == [][UnparseableKept]_vars

\* Player 1 holds Paper and has just sent a payload that is no move
C7_Witness ==
    /\ pc = "tick" /\ rx.kind = "Ok" /\ Some(rx.src) = player1_addr
    /\ rx.buf \in {<<" ">>, <<BadByte>>, <<>>}
    /\ player1_move = Paper /\ player2_move = Scissors

SendsToPlayersOnly(msgs) ==
    \A i \in 1 .. Len(msgs) : Registered(msgs[i].to)

StrangerIgnored ==
    /\ (pc = "recv" /\ pc' = "tick" /\ rx'.kind = "Ok" /\ ~Registered(rx'.src)) =>
         /\ player1_move' = player1_move
         /\ player2_move' = player2_move
         /\ player1_score' = player1_score
         /\ player2_score' = player2_score
         /\ sent' = <<>>
    /\ SendsToPlayersOnly(sent')

\* C8: in the match a datagram from an address that is neither player's
\* changes no move and no score, whatever its payload, and every send of
\* every broadcast goes to one of the two player addresses.
C8_StrangerIgnored == [][StrangerIgnored]_vars

\* a third address has just sent a valid move letter
C8_Witness ==
    /\ pc = "tick" /\ rx.kind = "Ok" /\ ~Registered(rx.src)
    /\ rx.buf \in {<<"p">>, <<"S">>}
    /\ player1_move = Rock /\ player2_move = Rock /\ player1_score = 0

TerminalBroadcast ==
    /\ elapsed >= TotalGameDuration
    /\ Len(sent) = 2
    /\ \A i \in 1 .. Len(sent) :
         /\ sent[i].msg.time_left = 0
         /\ sent[i].msg.p1_score = player1_score
         /\ sent[i].msg.p2_score = player2_score
         /\ sent[i].msg.final_msg # None
         /\ sent[i].msg.final_msg = Some("Player 1 wins!") <=> player1_score > player2_score
         /\ sent[i].msg.final_msg = Some("Player 2 wins!") <=> player2_score > player1_score
         /\ sent[i].msg.final_msg = Some("It's a draw!") <=> player1_score = player2_score

FinishedOnTimeUp ==
    /\ pc # "done"
    /\ pc' = "done" => pc = "guard"
    /\ (pc = "guard" /\ pc' # "guard") =>
         (pc' = "done" <=> now - start_time >= TotalGameDuration)
    /\ pc' = "done" => TerminalBroadcast'

\* C9: the loop ends exactly in the iteration that reads an elapsed time of
\* at least the game duration; the broadcast of that step carries time left
\* 0, the scores of that moment and the result they determine; no step
\* follows it.
C9_TerminalResult == [][FinishedOnTimeUp]_vars

\* the match has ended with Player 2 ahead
C9_Witness ==
    /\ pc = "done" /\ player2_score > player1_score
    /\ Len(sent) = 2 /\ sent[2].msg.final_msg = Some("Player 2 wins!")

\* C10: as long as no datagram has been received in the match both moves
\* are Rock and both scores 0, and the terminal message then reports a
\* draw with scores 0, 0 and time left 0.
C10_QuietMatchIsDraw ==
    (pc \in GamePcs \cup {"done"} /\ ~match_rx) =>
        /\ player1_move = Rock /\ player2_move = Rock
        /\ player1_score = 0 /\ player2_score = 0
        /\ \A i \in 1 .. Len(sent) :
             /\ sent[i].msg.p1_score = 0 /\ sent[i].msg.p2_score = 0
             /\ sent[i].msg.p1_move = "Rock" /\ sent[i].msg.p2_move = "Rock"
        /\ pc = "done" =>
             /\ Len(sent) = 2
             /\ \A i \in 1 .. Len(sent) :
                  /\ sent[i].msg.final_msg = Some("It's a draw!")
                  /\ sent[i].msg.time_left = 0

\* a whole match without a datagram, ticks included
C10_Witness ==
    /\ pc = "done" /\ ~match_rx /\ Len(sent) = 2
    /\ last_tick > start_time

\* the loop is left only towards "done", so it is left for good
LeftForGood == pc \in GamePcs => pc' \in GamePcs \cup {"done"}

IsTerminal(msgs) ==
    /\ Len(msgs) = 2
    /\ \A i \in 1 .. Len(msgs) : msgs[i].msg.final_msg # None

\* C11: once the game loop is entered, and as long as its iterations are
\* taken and the clock advances, the loop ends with the terminal broadcast,
\* whatever is received, whichever receives fail and whichever sends fail.
C11_MatchTerminates ==
    /\ []<>(pc \notin GamePcs)
    /\ [][LeftForGood]_vars
    /\ [](pc = "done" => IsTerminal(sent))

\* the match has ended after datagrams were received, both final sends failing
C11_Witness ==
    /\ pc = "done" /\ match_rx /\ IsTerminal(sent)
    /\ ~sent[1].ok /\ ~sent[2].ok

\* the step enters the game loop
EntersGameLoop == pc \notin GamePcs /\ pc' \in GamePcs

StartsAtRock ==
    EntersGameLoop =>
        /\ pc = "init" /\ pc' = "guard"
        /\ rx \in RecvOk
        /\ player1_move' = Rock /\ player2_move' = Rock
        /\ player1_score' = 0 /\ player2_score' = 0

\* C12: the game loop is entered with both moves Rock and both scores 0,
\* whatever the hello datagrams carried, and in every state of the loop each
\* move is one of Rock, Paper, Scissors.
C12_StartsAtRock ==
    /\ [][StartsAtRock]_vars
    /\ [](pc \in GamePcs \cup {"done"} => player1_move \in Moves /\ player2_move \in Moves)
    /\ [](pc \in {"waiting", "init"} => player1_move = Unset /\ player2_move = Unset)

\* the first state of the game loop: no iteration has read the clock yet
C12_Witness ==
    /\ pc = "guard" /\ elapsed = Unset
    /\ player1_move = Rock /\ player2_move = Rock
    /\ player1_score = 0 /\ player2_score = 0
    /\ player1_addr # None /\ player2_addr # None

\* the step is a recv_from that fails with an error other than WouldBlock
RecvFails == pc \in {"waiting", "recv"} /\ rx' = RecvErr /\ (pc = "waiting" \/ pc' # pc)

RecvErrorHarmless ==
    RecvFails =>
        /\ UNCHANGED <<slots, match_state, timers, hello, match_rx, sent>>
        /\ pc = "waiting" => pc' = "waiting"
        /\ pc = "recv" => pc' = "tick"

\* C13: a receive error other than WouldBlock is not fatal and changes
\* nothing: in the waiting loop the slots stay as they are and the loop polls
\* again, in the game loop the moves and scores stay as they are and the
\* iteration goes on to the tick check.
C13_RecvErrorHarmless == [][RecvErrorHarmless]_vars

\* a receive error in the game loop, after a move and a score have been made
C13_Witness ==
    /\ pc = "tick" /\ rx = RecvErr
    /\ player1_move = Paper /\ player2_move = Rock
    /\ player1_score = 1

\* a broadcast is one send_to to Player 1 followed by one to Player 2, same text
OneSendEach ==
    sent # <<>> =>
        /\ Len(sent) = 2
        /\ Some(sent[1].to) = player1_addr
        /\ Some(sent[2].to) = player2_addr
        /\ sent[1].msg = sent[2].msg

\* the step calls send_to
Sends == sent' # <<>> /\ (pc = "tick" \/ pc' # pc)

\* what a broadcasting step does to the match does not depend on the sends
SendResultDropped ==
    /\ Sends => (TickFired \/ (pc = "guard" /\ pc' = "done"))
    /\ TickFired =>
          /\ Sends /\ pc' = "guard"
          /\ UNCHANGED <<player1_move, player2_move, start_time>>
          /\ <<player1_score', player2_score'>> =
                 award(compare(player1_move, player2_move), player1_score, player2_score)
          /\ last_tick' = now
    /\ (pc = "guard" /\ pc' # pc) =>
          /\ UNCHANGED <<match_state, last_tick, start_time>>
          /\ pc' = "recv" <=> now - start_time < TotalGameDuration

\* C14: a broadcast attempts one send to Player 1 and one to Player 2; the
\* send to Player 2 is made whether or not the send to Player 1 failed, no
\* send is repeated, and a failed send changes no move, score or timestamp
\* and does not end the loop.
C14_SendsIndependent == [](OneSendEach) /\ [][SendResultDropped]_vars

\* an intermediate broadcast whose send to Player 1 failed, the loop going on
C14_Witness ==
    /\ pc = "guard" /\ Len(sent) = 2
    /\ ~sent[1].ok /\ sent[2].ok
    /\ Some(sent[2].to) = player2_addr
    /\ sent[2].msg.final_msg = None

\* first byte of buf that is not whitespace (buf has one)
FirstLetter(buf) == buf[Min({i \in 1 .. Len(buf) : buf[i] \notin {" ", "\t", "\n", "\r"}})]

LetterMove(c) ==
    IF c \in {"r", "R"} THEN Rock ELSE IF c \in {"p", "P"} THEN Paper ELSE Scissors

\* the step receives a datagram in the game loop
Receives == pc = "recv" /\ pc' = "tick" /\ rx' \in RecvOk

ValidMoveApplied ==
    /\ (Receives /\ ~Unparseable(rx'.buf)) =>
          /\ Some(rx'.src) = player1_addr =>
                /\ player1_move' = LetterMove(FirstLetter(rx'.buf))
                /\ player2_move' = player2_move
          /\ Some(rx'.src) = player2_addr =>
                /\ player2_move' = LetterMove(FirstLetter(rx'.buf))
                /\ player1_move' = player1_move
    /\ (pc \in GamePcs /\ <<player1_score', player2_score'>> # <<player1_score, player2_score>>) =>
          TickFired

IsIntermediate(msgs) == \A i \in 1 .. Len(msgs) : msgs[i].msg.final_msg = None

\* the step is the duration guard finding the time up
GuardFires == pc = "guard" /\ pc' # pc /\ time_is_up(now - start_time)

TerminalLast ==
    /\ pc = "done" => UNCHANGED vars
    /\ GuardFires =>
          /\ pc' = "done" /\ IsTerminal(sent')
          /\ UNCHANGED <<match_state, last_tick, rx, match_rx>>
    /\ (Sends /\ ~GuardFires) => (IsIntermediate(sent') /\ pc' \in GamePcs)

\* C16: the terminal broadcast is sent once and is the last message: every
\* message before it is an intermediate broadcast without a result, and once
\* the duration guard has fired nothing is received, no move changes and no
\* tick is scored.
C16_TerminalOnceAndLast ==
    /\ [][TerminalLast]_vars
    /\ [](pc \in GamePcs => IsIntermediate(sent))
    /\ [](pc = "done" <=> (sent # <<>> /\ IsTerminal(sent)))

\* the terminal broadcast delivered to both players after two scored ticks
C16_Witness ==
    /\ pc = "done" /\ IsTerminal(sent)
    /\ sent[1].ok /\ sent[2].ok
    /\ player1_score + player2_score = 2

\* guard, then receive, then tick, then the next iteration's guard
IterationOrder ==
    /\ pc = "guard" => pc' \in {"guard", "recv", "done"}
    /\ pc = "recv" => pc' \in {"recv", "tick"}
    /\ pc = "tick" => pc' \in {"tick", "guard"}
    /\ (pc = "recv" /\ rx' # rx) => pc' = "tick"

\* the move received in this iteration, if it is a valid move of a player
FreshMove(addr) ==
    IF rx \in RecvOk /\ Some(rx.src) = addr /\ ~Unparseable(rx.buf)
    THEN Some(LetterMove(FirstLetter(rx.buf)))
    ELSE None

FreshMoveUsed ==
    TickFired =>
        /\ FreshMove(player1_addr) # None =>
              /\ cmp' = compare(FreshMove(player1_addr)[1], player2_move)
              /\ \A i \in 1 .. 2 : sent'[i].msg.p1_move = fmt(FreshMove(player1_addr)[1])
        /\ FreshMove(player2_addr) # None =>
              /\ cmp' = compare(player1_move, FreshMove(player2_addr)[1])
              /\ \A i \in 1 .. 2 : sent'[i].msg.p2_move = fmt(FreshMove(player2_addr)[1])

\* C19: an iteration runs the duration guard, then one receive, then the
\* tick; it takes at most one datagram, and a valid move it receives is the
\* one its tick compares and its broadcast shows.
C19_FreshMoveInTick ==
    /\ [][IterationOrder]_vars
    /\ [][FreshMoveUsed]_vars
    /\ [](pc \in {"guard", "recv"} => rx = NoRx)
    /\ [](pc = "tick" => rx \in RecvResults)

\* Player 1 has just sent "p" and the tick of the same iteration is due
C19_Witness ==
    /\ pc = "tick" /\ rx \in RecvOk
    /\ Some(rx.src) = player1_addr /\ rx.buf = <<"p">>
    /\ player1_move = Paper /\ player2_move = Scissors
    /\ tick_due(now - last_tick)

\* whole seconds in d clock units, rounded down
WholeSeconds(d) == CHOOSE s \in 0 .. d : s * Second <= d /\ d < (s + 1) * Second

\* the elapsed times at which an iteration gets past the duration guard
RunningElapsed == 0 .. TotalGameDuration - 1

TimeLeftShown ==
    /\ TickFired =>
          /\ elapsed \in RunningElapsed
          /\ \A i \in 1 .. Len(sent') :
                /\ sent'[i].msg.time_left = WholeSeconds(TotalGameDuration - elapsed)
                /\ sent'[i].msg.time_left \in 0 .. WholeSeconds(TotalGameDuration)
    /\ (pc = "guard" /\ pc' # pc) => elapsed' = now - start_time
    /\ pc \in {"recv", "tick"} => elapsed' = elapsed
    /\ (pc \in GamePcs /\ elapsed # Unset) => elapsed' >= elapsed

\* C17: an intermediate broadcast carries the whole seconds left of the game
\* duration after the elapsed time read at the top of its iteration, which
\* is below the game duration, so nothing underflows; the value lies between
\* 0 and the game duration in seconds, and since the elapsed time never
\* falls from one reading to the next and the seconds left never rise with
\* it, successive broadcasts carry non-increasing values.
C17_TimeLeft ==
    /\ [][TimeLeftShown]_vars
    /\ [](\A e1, e2 \in RunningElapsed :
             e1 <= e2 => WholeSeconds(TotalGameDuration - e1) >= WholeSeconds(TotalGameDuration - e2))

\* the second broadcast of a game, made in a later iteration than the first
\* and carrying less time left than a broadcast made at the start
C17_Witness ==
    /\ pc = "guard" /\ ticks = 2 /\ elapsed > 0
    /\ Len(sent) = 2 /\ IsIntermediate(sent)
    /\ sent[1].msg.time_left < WholeSeconds(TotalGameDuration)

\* the most ticks a game of the source's durations can have
MaxTicksInSource == (GameSecs * 1000000) \div TickMicros + 1

TickSpacing ==
    /\ TickFired =>
          /\ now - last_tick >= TickDuration
          /\ last_tick' = now
          /\ last_tick' - last_tick >= TickDuration
          /\ ticks' = ticks + 1
    /\ (pc = "tick" /\ pc' # pc /\ now - last_tick < TickDuration) =>
          /\ UNCHANGED <<last_tick, player1_score, player2_score, ticks>>
          /\ sent' = <<>>
    /\ (pc \in GamePcs /\ last_tick' # last_tick) => TickFired

\* C18: an iteration ticks only when at least one tick interval has passed
\* since the last-tick timestamp, and the tick resets the timestamp to the
\* current time; so consecutive ticks are at least one interval apart, the
\* ticks of a game, and with them score1 + score2, number at most
\* game duration / tick interval + 1, and with the source's durations that
\* number is far below 2^32.
C18_TickSpacing ==
    /\ [][TickSpacing]_vars
    /\ [](pc \in GamePcs \cup {"done"} =>
            /\ ticks * TickDuration <= last_tick - start_time
            /\ ticks <= TotalGameDuration \div TickDuration + 1
            /\ player1_score + player2_score <= ticks)
    /\ [](MaxTicksInSource = 40001 /\ MaxTicksInSource \div 65536 < 65536)

\* as many ticks as fit into the game, the last one just made
C18_Witness ==
    /\ pc = "guard" /\ cmp # Unset /\ last_tick = now
    /\ ticks = TotalGameDuration \div TickDuration
    /\ ticks >= 2

\* the scores a message carries
ScoresIn(m) == <<m.p1_score, m.p2_score>>

\* the scores of the last intermediate broadcast, <<0, 0>> when there was none
LastScores == IF last_bcast = None THEN <<0, 0>> ELSE last_bcast[1]

ScoresCounted ==
    /\ TickFired =>
          /\ decisive' = decisive + (IF player1_move # player2_move THEN 1 ELSE 0)
          /\ \A i \in 1 .. Len(sent') : last_bcast' = Some(ScoresIn(sent'[i].msg))
    /\ (pc \in GamePcs /\ ~TickFired) => UNCHANGED <<ticks, decisive, last_bcast>>

\* C20: in the game loop score1 + score2 is the number of ticks so far at
\* which the two moves differed, and the terminal broadcast carries the
\* scores of the last intermediate broadcast, 0 and 0 when no tick was made,
\* even where the moves it carries are not that broadcast's.
C20_ScoresAreDecisiveTicks ==
    /\ [][ScoresCounted]_vars
    /\ [](pc \in GamePcs \cup {"done"} =>
            /\ player1_score + player2_score = decisive
            /\ (last_bcast = None) <=> (ticks = 0)
            /\ <<player1_score, player2_score>> = LastScores)
    /\ [](pc = "done" => \A i \in 1 .. Len(sent) : ScoresIn(sent[i].msg) = LastScores)

\* a game whose ticks were all ties, so that every intermediate broadcast
\* carried two equal moves, ends with a terminal broadcast of two different moves
C20_Witness ==
    /\ pc = "done" /\ IsTerminal(sent)
    /\ ticks >= 1 /\ decisive = 0
    /\ sent[1].msg.p1_move # sent[1].msg.p2_move
    /\ ScoresIn(sent[1].msg) = LastScores

====
